---- MODULE Spec2Model ----
(***************************************************************************)
(* getMMlyrics.py: the credential locator get_mm_credentials and the       *)
(* lyrics client get_mm_lyrics / get_mm_richsync, as state machines.       *)
(*                                                                         *)
(* Byte strings (the cache files, the regex literal) are sequences of      *)
(* integers 0..255.  Text (decoded URLs, parameter values) is a sequence   *)
(* of code points.                                                         *)
(***************************************************************************)
EXTENDS Integers, Sequences, FiniteSets, TLC

VARIABLES
    pc,            \* position of the running procedure
    fs,            \* the cache folders' entries: id -> [kind, mtime, content]
    cachefiles,    \* get_mm_credentials: the sorted list of regular files
    fidx,          \* get_mm_credentials: position of the for loop in cachefiles
    credentials,   \* get_mm_credentials: the local `credentials` (bound or not)
    outcome,       \* what the procedure handed to its caller
    c,             \* the bytes read from a cache file
    m,             \* the result of re.search on c
    args,          \* get_mm_lyrics / get_mm_richsync: the arguments of the call
    backend,       \* what the remote API answers to the two endpoints
    q,             \* the dict of query parameters, in insertion order
    url,           \* the request URL
    sent,          \* the endpoints requested so far, in order
    r,             \* the HTTP response
    full,          \* the parsed JSON envelope
    locals,        \* get_mm_lyrics: the projected fields
    rs,            \* get_mm_richsync: its own url, r, full and lyrics
    caller,        \* who called get_mm_richsync
    seen           \* the failures the caller has observed, over its calls

credVars == <<fs, cachefiles, fidx, credentials>>
searchVars == <<c, m>>
lyrVars == <<args, backend, q, url, sent, r, full, locals, rs, caller, seen>>
vars == <<pc, outcome, credVars, searchVars, lyrVars>>

(***************************************************************************)
(* Bounds of the model                                                     *)
(***************************************************************************)
NumFiles == 2      \* entries found by glob in the cache folders
MaxMtime == 2      \* modification times are 1..MaxMtime (ties allowed)
MaxNoise == 1      \* bytes of unrelated data in front of an embedded URL
MaxTail == 1       \* bytes of unrelated data after an embedded URL
MaxParts == 2      \* (offset, fragment) parts in a richsync line
MaxLines == 2      \* lines in a richsync body

(***************************************************************************)
(* Generic helpers                                                         *)
(***************************************************************************)
RECURSIVE SeqsUpTo(_, _)
SeqsUpTo(S, n) ==
    IF n = 0 THEN {<<>>}
    ELSE LET shorter == SeqsUpTo(S, n - 1)
         IN shorter \cup {Append(s, x) : s \in shorter, x \in S}

Least(S) == CHOOSE x \in S : \A y \in S : x <= y
Greatest(S) == CHOOSE x \in S : \A y \in S : x >= y

\* str.find / bytes.find of one element: the first index, 0 when absent
Find(s, x) ==
    LET at == {i \in 1..Len(s) : s[i] = x}
    IN IF at = {} THEN 0 ELSE Least(at)

\* str.split(sep) on a single-character separator
RECURSIVE Split(_, _)
Split(s, sep) ==
    LET i == Find(s, sep)
    IN IF i = 0 THEN <<s>>
       ELSE <<SubSeq(s, 1, i - 1)>> \o Split(SubSeq(s, i + 1, Len(s)), sep)

(***************************************************************************)
(* The regular expression of get_mm_credentials                            *)
(*   b'(https://apic-desktop\.musixmatch\.com/ws/1\.1/macro\.subtitles\.   *)
(*      get.*?)[^ -~]'                                                     *)
(***************************************************************************)
\* the literal part: b'https://apic-desktop.musixmatch.com/ws/1.1/macro.subtitles.get'
PREFIX ==
    <<104, 116, 116, 112, 115, 58, 47, 47, 97, 112, 105, 99, 45, 100, 101, 115,
      107, 116, 111, 112, 46, 109, 117, 115, 105, 120, 109, 97, 116, 99, 104, 46,
      99, 111, 109, 47, 119, 115, 47, 49, 46, 49, 47, 109, 97, 99, 114, 111, 46,
      115, 117, 98, 116, 105, 116, 108, 101, 115, 46, 103, 101, 116>>

\* [^ -~]: a byte outside the ASCII codes of space (32) to tilde (126)
Terminator(b) == b < 32 \/ b > 126

\* `.` of a bytes pattern without DOTALL: any byte but the line feed
Dot(b) == b # 10

\* the literal matches at position i of buf
LiteralAt(buf, i) ==
    /\ i + Len(PREFIX) - 1 <= Len(buf)
    /\ \A k \in 1..Len(PREFIX) : buf[i + k - 1] = PREFIX[k]

\* A greedy `.*` would run to the last terminator it can reach.
GreedyScan(buf, j) ==
    LET ends == {k \in j..Len(buf) :
                    Terminator(buf[k]) /\ \A l \in j..(k - 1) : Dot(buf[l])}
    IN IF ends = {} THEN 0 ELSE Greatest(ends)

\* `.*?[^ -~]` from position j: at each byte the lazy quantifier first tries
\* the terminator class, and only then lets `.` take the byte.  The scan
\* stops at the first byte that is a terminator or that `.` cannot take.
\* The position of the terminator, 0 when the pattern fails from here.
LazyEnd(buf, j) ==
    LET stops == {k \in j..Len(buf) : Terminator(buf[k]) \/ ~Dot(buf[k])}
    IN IF stops = {} THEN 0
       ELSE IF Terminator(buf[Least(stops)]) THEN Least(stops)
       ELSE 0

NoMatch == [found |-> FALSE, url |-> <<>>]

\* the start positions from i on at which the literal matches
LiteralsFrom(buf, i) == {k \in i..Len(buf) : LiteralAt(buf, k)}

\* re.search: the start positions are tried from left to right (only those
\* where the literal matches can succeed); the first at which the rest of
\* the pattern matches wins, and the result carries group 1
RECURSIVE SearchFrom(_, _)
SearchFrom(buf, i) ==
    IF LiteralsFrom(buf, i) = {} THEN NoMatch
    ELSE LET p == Least(LiteralsFrom(buf, i))
             e == LazyEnd(buf, p + Len(PREFIX))
         IN IF e # 0 THEN [found |-> TRUE, url |-> SubSeq(buf, p, e - 1)]
            ELSE SearchFrom(buf, p + 1)

search(buf) == SearchFrom(buf, 1)

(***************************************************************************)
(* m.groups()[0].decode(errors='ignore'), urlparse(url).query, parse_qs    *)
(***************************************************************************)
\* bytes.decode(errors='ignore'): ASCII bytes decode to themselves; the group
\* holds only bytes 32..126, other bytes (never valid alone) are dropped
IsAscii(b) == b < 128
decode(bytes) == SelectSeq(bytes, IsAscii)

\* urlparse(url).query: the fragment is cut at the first '#' (35), then the
\* query is what follows the first '?' (63)
UrlQuery(u) ==
    LET h == Find(u, 35)
        nofrag == IF h = 0 THEN u ELSE SubSeq(u, 1, h - 1)
        qmark == Find(nofrag, 63)
    IN IF qmark = 0 THEN <<>> ELSE SubSeq(nofrag, qmark + 1, Len(nofrag))

\* the value of a hexadecimal digit, -1 for any other character
HexVal(ch) ==
    IF ch >= 48 /\ ch <= 57 THEN ch - 48
    ELSE IF ch >= 65 /\ ch <= 70 THEN ch - 55
    ELSE IF ch >= 97 /\ ch <= 102 THEN ch - 87
    ELSE -1

\* urllib.parse.unquote after replace('+', ' '): %XX becomes the character of
\* that code; a byte over 127 standing alone decodes to U+FFFD (65533)
RECURSIVE unquote(_)
unquote(s) ==
    IF s = <<>> THEN <<>>
    ELSE IF s[1] = 37 /\ Len(s) >= 3 /\ HexVal(s[2]) >= 0 /\ HexVal(s[3]) >= 0
         THEN LET v == 16 * HexVal(s[2]) + HexVal(s[3])
              IN <<IF v < 128 THEN v ELSE 65533>> \o unquote(SubSeq(s, 4, Len(s)))
    ELSE IF s[1] = 43 THEN <<32>> \o unquote(Tail(s))
    ELSE <<s[1]>> \o unquote(Tail(s))

\* parse_qsl over the '&'-separated fields (61 is '='): a field without '='
\* or with a blank value is dropped (keep_blank_values is PyFalse)
RECURSIVE ParseFields(_)
ParseFields(fields) ==
    IF fields = <<>> THEN <<>>
    ELSE LET fld == Head(fields)
             e == Find(fld, 61)
             rest == ParseFields(Tail(fields))
         IN IF e = 0 \/ e = Len(fld) THEN rest
            ELSE <<[name |-> unquote(SubSeq(fld, 1, e - 1)),
                    value |-> unquote(SubSeq(fld, e + 1, Len(fld)))]>> \o rest

\* parse_qs(query): the (name, value) pairs in order of appearance; 38 is '&'
parse_qs(query) == ParseFields(Split(query, 38))

\* p in query
HasKey(pairs, name) == \E k \in 1..Len(pairs) : pairs[k].name = name

\* query[p][0]: the first value given for p
FirstValue(pairs, name) ==
    pairs[CHOOSE k \in 1..Len(pairs) :
            /\ pairs[k].name = name
            /\ \A j \in 1..(k - 1) : pairs[j].name # name].value

\* ['userblob_id', 'user_language', 'app_id', 'usertoken', 'guid', 'signature']
REQUIRED ==
    << <<117, 115, 101, 114, 98, 108, 111, 98, 95, 105, 100>>,
       <<117, 115, 101, 114, 95, 108, 97, 110, 103, 117, 97, 103, 101>>,
       <<97, 112, 112, 95, 105, 100>>,
       <<117, 115, 101, 114, 116, 111, 107, 101, 110>>,
       <<103, 117, 105, 100>>,
       <<115, 105, 103, 110, 97, 116, 117, 114, 101>> >>

\* credentials = []; for p in [...]: credentials.append(query[p][0])
\* The list as it stands when the loop ends or query[p] raises KeyError.
RECURSIVE AppendCredentials(_, _, _)
AppendCredentials(pairs, k, acc) ==
    IF k > Len(REQUIRED) THEN [list |-> acc, raised |-> FALSE]
    ELSE IF HasKey(pairs, REQUIRED[k])
         THEN AppendCredentials(pairs, k + 1,
                                Append(acc, FirstValue(pairs, REQUIRED[k])))
    ELSE [list |-> acc, raised |-> TRUE]

\* the try block of a matched file
ReadCredentials(u) ==
    AppendCredentials(parse_qs(UrlQuery(decode(u))), 1, <<>>)

(***************************************************************************)
(* The cache folders                                                       *)
(***************************************************************************)
\* name=value of required parameter k; the values of variant v are the two
\* characters v and the digit k, the signature's followed by an escaped '='
Field(v, k) ==
    REQUIRED[k] \o <<61, v, 48 + k>> \o (IF k = 6 THEN <<37, 51, 68>> ELSE <<>>)

RECURSIVE QueryOf(_, _)
QueryOf(v, ks) ==
    IF ks = <<>> THEN <<>>
    ELSE Field(v, Head(ks)) \o (IF Len(ks) > 1 THEN <<38>> ELSE <<>>)
         \o QueryOf(v, Tail(ks))

\* the request URL the desktop application stored: PREFIX ? format=json & ...
StoredUrl(v, ks) ==
    PREFIX \o <<63, 102, 111, 114, 109, 97, 116, 61, 106, 115, 111, 110, 38>>
           \o QueryOf(v, ks)

\* What a cache file may hold: unrelated bytes; a stored URL with all six
\* parameters, ended by a NUL or a line feed; one with some parameters
\* missing; one that runs to the end of the file.
CacheContents ==
    { <<0, 255, 104, 116, 10>>,
      <<0, 200>> \o StoredUrl(65, <<1, 2, 3, 4, 5, 6>>) \o <<0, 7>>,
      StoredUrl(66, <<6, 5, 4, 3, 2, 1>>) \o <<10>>,
      <<1>> \o StoredUrl(67, <<1, 2, 3>>) \o <<0>>,
      StoredUrl(68, <<2, 3, 4, 5, 6>>) \o <<255>>,
      <<0>> \o StoredUrl(69, <<1, 2, 3, 4, 5, 6>>) }

\* an entry of a cache folder: a directory, a file that cannot be opened
\* (PermissionError), or a readable file
Entries ==
    [kind : {"dir", "denied"}, mtime : 1..MaxMtime, content : {<<>>}]
    \cup [kind : {"file"}, mtime : 1..MaxMtime, content : CacheContents]

(***************************************************************************)
(* get_mm_credentials                                                      *)
(***************************************************************************)
IdleLyrics ==
    /\ args = <<>>
    /\ backend = <<>>
    /\ q = <<>>
    /\ url = <<>>
    /\ sent = <<>>
    /\ r = <<>>
    /\ full = <<>>
    /\ locals = <<>>
    /\ rs = <<>>
    /\ caller = ""
    /\ seen = {}

NoExc == [type |-> "", msg |-> "", code |-> <<>>, url |-> <<>>]
\* an exception: its class, its message (by its fixed text), and the status
\* code and URL the message embeds (<<>> when it embeds none)
Raised(type, msg, code, u) ==
    [kind |-> "raised", exc |-> [type |-> type, msg |-> msg, code |-> code, url |-> u],
     value |-> <<>>]

Nothing == [kind |-> "none", exc |-> NoExc, value |-> <<>>]
Returned(v) == [kind |-> "returned", exc |-> NoExc, value |-> v]
Unbound == [bound |-> FALSE, list |-> <<>>]
Bound(l) == [bound |-> TRUE, list |-> l]


\* filter(os.path.isfile, ...) over the glob results, in glob order
RECURSIVE FilterIsFile(_, _)
FilterIsFile(files, i) ==
    IF i > NumFiles THEN <<>>
    ELSE (IF files[i].kind = "dir" THEN <<>> ELSE <<i>>) \o FilterIsFile(files, i + 1)

\* A sort without reverse=True: oldest first.
RECURSIVE InsertAscending(_, _, _)
InsertAscending(files, s, x) ==
    IF s = <<>> THEN <<x>>
    ELSE IF files[Head(s)].mtime > files[x].mtime THEN <<x>> \o s
    ELSE <<Head(s)>> \o InsertAscending(files, Tail(s), x)

\* x goes in front of the first element that is older than x: newest first,
\* elements of equal mtime keep their order (sorted is stable under reverse)
RECURSIVE InsertByMtime(_, _, _)
InsertByMtime(files, s, x) ==
    IF s = <<>> THEN <<x>>
    ELSE IF files[Head(s)].mtime < files[x].mtime THEN <<x>> \o s
    ELSE <<Head(s)>> \o InsertByMtime(files, Tail(s), x)

\* sorted(cachefiles, key=os.path.getmtime, reverse=True)
RECURSIVE sorted(_, _)
sorted(files, ids) ==
    IF ids = <<>> THEN <<>>
    ELSE InsertByMtime(files, sorted(files, SubSeq(ids, 1, Len(ids) - 1)),
                       ids[Len(ids)])

InitCred ==
    /\ pc = "cred_start"
    /\ fs \in [1..NumFiles -> Entries]
    /\ cachefiles = <<>>
    /\ fidx = 0
    /\ credentials = Unbound
    /\ outcome = Nothing
    /\ c = <<>>
    /\ m = NoMatch
    /\ IdleLyrics

\* lines 34-37: glob, isfile, sorted
ListCacheFiles ==
    /\ pc = "cred_start"
    /\ cachefiles' = sorted(fs, FilterIsFile(fs, 1))
    /\ fidx' = 1
    /\ pc' = "cred_loop"
    /\ UNCHANGED <<fs, credentials, outcome, searchVars, lyrVars>>

InLoop == pc = "cred_loop" /\ fidx <= Len(cachefiles)
CurrentFile == fs[cachefiles[fidx]]

\* lines 40-48: open raises PermissionError; continue
OpenDenied ==
    /\ InLoop
    /\ CurrentFile.kind = "denied"
    /\ fidx' = fidx + 1
    /\ UNCHANGED <<pc, fs, cachefiles, credentials, outcome, searchVars, lyrVars>>

\* lines 42-51: the file is read and the pattern is not found in it
ScanNoMatch ==
    /\ InLoop
    /\ CurrentFile.kind = "file"
    /\ ~search(CurrentFile.content).found
    /\ c' = CurrentFile.content
    /\ m' = search(CurrentFile.content)
    /\ fidx' = fidx + 1
    /\ UNCHANGED <<pc, fs, cachefiles, credentials, outcome, lyrVars>>

\* lines 51-67: the pattern is found, query[p] raises KeyError for some p;
\* the bare except passes, the list built so far stays bound to `credentials`
ScanIncomplete ==
    /\ InLoop
    /\ CurrentFile.kind = "file"
    /\ search(CurrentFile.content).found
    /\ ReadCredentials(search(CurrentFile.content).url).raised
    /\ c' = CurrentFile.content
    /\ m' = search(CurrentFile.content)
    /\ credentials' = Bound(ReadCredentials(search(CurrentFile.content).url).list)
    /\ fidx' = fidx + 1
    /\ UNCHANGED <<pc, fs, cachefiles, outcome, lyrVars>>

\* lines 51-64: the pattern is found and all six parameters are read; break
ScanComplete ==
    /\ InLoop
    /\ CurrentFile.kind = "file"
    /\ search(CurrentFile.content).found
    /\ ~ReadCredentials(search(CurrentFile.content).url).raised
    /\ c' = CurrentFile.content
    /\ m' = search(CurrentFile.content)
    /\ credentials' = Bound(ReadCredentials(search(CurrentFile.content).url).list)
    /\ pc' = "cred_after"
    /\ UNCHANGED <<fs, cachefiles, fidx, outcome, lyrVars>>

\* the for loop runs out of files
LoopExhausted ==
    /\ pc = "cred_loop"
    /\ fidx > Len(cachefiles)
    /\ pc' = "cred_after"
    /\ UNCHANGED <<fs, cachefiles, fidx, credentials, outcome, searchVars, lyrVars>>

\* lines 69-70: if not 'credentials' in locals(): raise AttributeError
RaiseNotFound ==
    /\ pc = "cred_after"
    /\ ~credentials.bound
    /\ outcome' = Raised("AttributeError", "Unable to load credentials", <<>>, <<>>)
    /\ pc' = "cred_done"
    /\ UNCHANGED <<credVars, searchVars, lyrVars>>

\* line 76: return credentials
ReturnCredentials ==
    /\ pc = "cred_after"
    /\ credentials.bound
    /\ outcome' = Returned(credentials.list)
    /\ pc' = "cred_done"
    /\ UNCHANGED <<credVars, searchVars, lyrVars>>

NextCred ==
    \/ ListCacheFiles
    \/ OpenDenied
    \/ ScanNoMatch
    \/ ScanIncomplete
    \/ ScanComplete
    \/ LoopExhausted
    \/ RaiseNotFound
    \/ ReturnCredentials

SpecCred == InitCred /\ [][NextCred]_vars

(***************************************************************************)
(* re.search alone, over cache file contents                               *)
(***************************************************************************)
NoiseBytes == {0, 10, 116, 200}
TailBytes == {0, 10, 32, 34, 127, 128}

\* what follows the noise: nothing, the bare literal, a URL, a URL holding
\* characters outside the URL alphabet, two URLs a NUL apart, the literal
\* short of its last byte followed by a URL
SearchBodies ==
    { <<>>,
      PREFIX,
      StoredUrl(65, <<1, 2>>),
      PREFIX \o <<63, 97, 61, 49, 32, 34, 120, 60>>,
      StoredUrl(66, <<1>>) \o <<0>> \o StoredUrl(67, <<2>>),
      SubSeq(PREFIX, 1, Len(PREFIX) - 1) \o <<32>> \o StoredUrl(68, <<3>>) }

SearchInputs ==
    { n \o b \o t : n \in SeqsUpTo(NoiseBytes, MaxNoise), b \in SearchBodies,
                    t \in SeqsUpTo(TailBytes, MaxTail) }

InitSearch ==
    /\ pc = "search_start"
    /\ c \in SearchInputs
    /\ m = NoMatch
    /\ fs = <<>>
    /\ cachefiles = <<>>
    /\ fidx = 0
    /\ credentials = Unbound
    /\ outcome = Nothing
    /\ IdleLyrics

\* line 50: m = search(pattern, c)
DoSearch ==
    /\ pc = "search_start"
    /\ m' = search(c)
    /\ pc' = "search_done"
    /\ UNCHANGED <<c, credVars, outcome, lyrVars>>

NextSearch == DoSearch

SpecSearch == InitSearch /\ [][NextSearch]_vars

(***************************************************************************)
(* Python values whose type or truth value the code depends on             *)
(***************************************************************************)
PyFalse == [t |-> "bool", b |-> FALSE]
PyStr(s) == [t |-> "str", s |-> s]
PyInt(n) == [t |-> "int", n |-> n]
\* a float with one decimal digit, held in tenths: PyFloat(1698) is 169.8
PyFloat(x10) == [t |-> "float", x10 |-> x10]
Tuple2(a, b) == [t |-> "tuple", a |-> a, b |-> b]

\* `if v:` -- False and the empty string are falsy, a 2-tuple is truthy
Truthy(v) ==
    CASE v.t = "bool" -> v.b
      [] v.t = "str" -> v.s # <<>>
      [] v.t = "int" -> v.n # 0
      [] v.t = "float" -> v.x10 # 0
      [] v.t = "tuple" -> TRUE

\* math.floor
floor(v) == IF v.t = "float" THEN v.x10 \div 10 ELSE v.n

\* the decimal digits of a natural number
RECURSIVE Digits(_)
Digits(n) == IF n < 10 THEN <<48 + n>> ELSE Digits(n \div 10) \o <<48 + (n % 10)>>

\* str(v)
str(v) ==
    CASE v.t = "str" -> v.s
      [] v.t = "int" -> Digits(v.n)
      [] v.t = "float" -> Digits(v.x10 \div 10) \o <<46>> \o Digits(v.x10 % 10)

\* quote's always-safe characters: letters, digits, _ . - ~ and the default
\* safe='/'
QuoteSafe(ch) ==
    \/ ch >= 48 /\ ch <= 57
    \/ ch >= 65 /\ ch <= 90
    \/ ch >= 97 /\ ch <= 122
    \/ ch \in {95, 46, 45, 126, 47}

HexDigit(n) == IF n < 10 THEN 48 + n ELSE 55 + n
PercentByte(b) == <<37, HexDigit(b \div 16), HexDigit(b % 16)>>

\* urllib.parse.quote: every other character becomes %XX of each byte of its
\* UTF-8 encoding (one byte below 128, two bytes below 2048)
RECURSIVE quote(_)
quote(s) ==
    IF s = <<>> THEN <<>>
    ELSE (IF QuoteSafe(s[1]) THEN <<s[1]>>
          ELSE IF s[1] < 128 THEN PercentByte(s[1])
          ELSE PercentByte(192 + (s[1] \div 64)) \o PercentByte(128 + (s[1] % 64)))
         \o quote(Tail(s))

\* q[k] = v on a dict: a new key goes last, a known key keeps its place
DictSet(d, k, v) ==
    IF \E i \in 1..Len(d) : d[i].k = k
    THEN [i \in 1..Len(d) |-> IF d[i].k = k THEN [k |-> k, v |-> v] ELSE d[i]]
    ELSE Append(d, [k |-> k, v |-> v])

(***************************************************************************)
(* get_mm_lyrics: the query and the URL (lines 102-148)                    *)
(***************************************************************************)
\* lines 102-140
BuildQuery(a) ==
    LET q1 == IF Truthy(a.length)
              THEN DictSet(<<>>, "f_subtitle_length", PyInt(floor(a.length.a)))
              ELSE <<>>
        q2 == DictSet(q1, "namespace", PyStr(<<108, 121, 114, 105, 99, 115, 95, 115, 121, 110, 99, 104, 101, 100>>))
        q3 == DictSet(q2, "part", PyStr(<<108, 121, 114, 105, 99, 115, 95, 99, 114, 111, 119, 100, 44, 117, 115, 101, 114, 44, 108, 121, 114, 105, 99, 115, 95, 118, 101, 114, 105, 102, 105, 101, 100, 95, 98, 121>>))
        q4 == IF Truthy(a.album) THEN DictSet(q3, "q_album", a.album) ELSE q3
        q5 == IF Truthy(a.artist)
              THEN DictSet(DictSet(q4, "q_artist", a.artist), "q_artists", a.artist)
              ELSE q4
        q6 == IF Truthy(a.length) THEN DictSet(q5, "q_duration", a.length.a) ELSE q5
        q7 == IF Truthy(a.title) THEN DictSet(q6, "q_track", a.title) ELSE q6
        q8 == DictSet(q7, "tags", PyStr(<<110, 111, 119, 112, 108, 97, 121, 105, 110, 103>>))
        q9 == DictSet(q8, "userblob_id", PyStr(a.creds[1]))
        q10 == DictSet(q9, "user_language", PyStr(a.creds[2]))
        q11 == IF Truthy(a.spotify_id)
               THEN DictSet(q10, "track_spotify_id", a.spotify_id)
               ELSE q10
        q12 == IF Truthy(a.length)
               THEN DictSet(q11, "f_subtitle_length_max_deviation", a.length.b)
               ELSE q11
        q13 == DictSet(q12, "subtitle_format", PyStr(<<108, 114, 99>>))
        q14 == DictSet(q13, "app_id", PyStr(a.creds[3]))
        q15 == DictSet(q14, "usertoken", PyStr(a.creds[4]))
        q16 == DictSet(q15, "guid", PyStr(a.creds[5]))
        q17 == DictSet(q16, "signature", PyStr(a.creds[6]))
    IN DictSet(q17, "signature_protocol", PyStr(<<115, 104, 97, 49>>))

\* Quoting the signature like every other value.
QuoteEveryValue(k, v) == quote(str(v))

\* lines 146-147: if k != 'signature': v = quote(str(v))
UrlValue(k, v) == IF k # "signature" THEN quote(str(v)) ELSE v.s

\* lines 144-148: the URL is the base followed by one "&k=v" per item of q,
\* held here as the list of those (k, v)
BuildUrl(base, d) ==
    [base |-> base,
     params |-> [i \in 1..Len(d) |-> [k |-> d[i].k, v |-> UrlValue(d[i].k, d[i].v)]]]

MacroBase == "https://apic-desktop.musixmatch.com/ws/1.1/macro.subtitles.get?format=json"
RichsyncBase == "https://apic-desktop.musixmatch.com/ws/1.1/track.richsync.get?format=json"

(***************************************************************************)
(* get_mm_lyrics: the projection (lines 188-233)                           *)
(*                                                                         *)
(* A JSON value whose type the code may trip over is tagged: an object     *)
(* [t |-> "obj", o |-> fields], a string [t |-> "str", s |-> text], null   *)
(* [t |-> "null"].  An object's fields are a function on its keys.         *)
(***************************************************************************)
JObj(o) == [t |-> "obj", o |-> o]
JStr(x) == [t |-> "str", s |-> x]
JNull == [t |-> "null"]

Restrict(f, S) == [k \in S |-> f[k]]

IsSpace(ch) == ch \in {32, 9, 10, 11, 12, 13}

\* str.strip()
strip(s) ==
    LET keep == {i \in 1..Len(s) : ~IsSpace(s[i])}
    IN IF keep = {} THEN <<>> ELSE SubSeq(s, Least(keep), Greatest(keep))

\* s[:n]
Prefix(s, n) == SubSeq(s, 1, IF Len(s) < n THEN Len(s) ELSE n)

NonEmpty(e) == e.v # ""

\* line 198: the values of the album_coverart_* items of the track, in the
\* order of the response, that are not ''
Covers(track) == SelectSeq(track.coverart, NonEmpty)

\* lines 213-215: the names the try block has assigned when it ends, and
\* whether it ended by a KeyError
LyricsAssigned(o) ==
    IF "lyrics" \notin DOMAIN o \/ "lyrics_body" \notin DOMAIN o.lyrics
    THEN [vals |-> <<>>, raised |-> TRUE]
    ELSE LET v1 == [k \in {"lyrics"} |-> o.lyrics.lyrics_body]
         IN IF "lyrics_language" \notin DOMAIN o.lyrics
            THEN [vals |-> v1, raised |-> TRUE]
            ELSE LET v2 == [k \in {"lyrics", "language"} |->
                              IF k = "lyrics" THEN v1[k]
                              ELSE o.lyrics.lyrics_language]
                 IN IF "lyrics_copyright" \notin DOMAIN o.lyrics
                    THEN [vals |-> v2, raised |-> TRUE]
                    ELSE [vals |-> [k \in {"lyrics", "language", "copyright"} |->
                                      IF k = "copyright"
                                      THEN strip(o.lyrics.lyrics_copyright)
                                      ELSE v2[k]],
                          raised |-> FALSE]

EmptyLyrics == [k \in {"lyrics", "language", "copyright"} |->
                  IF k = "copyright" THEN <<>> ELSE ""]

\* An except block that only fills in the names not yet assigned.
KeepAssigned(vals) ==
    [k \in {"lyrics", "language", "copyright"} |->
        IF k \in DOMAIN vals THEN vals[k] ELSE EmptyLyrics[k]]

\* lines 216-219: except KeyError: lyrics = ''; language = ''; copyright = ''
ExceptKeyError(vals) == EmptyLyrics

\* lines 212-219
LyricsTry(o) ==
    IF LyricsAssigned(o).raised THEN ExceptKeyError(LyricsAssigned(o).vals)
    ELSE LyricsAssigned(o).vals

\* lines 221-224
CrowdTry(o) ==
    IF "crowd_lyrics_list" \notin DOMAIN o THEN <<>>
    ELSE LET l == o.crowd_lyrics_list
         IN IF \E i \in 1..Len(l) :
                  "lyrics" \notin DOMAIN l[i] \/ "lyrics_body" \notin DOMAIN l[i].lyrics
            THEN <<>>
            ELSE [i \in 1..Len(l) |-> l[i].lyrics.lyrics_body]

\* s['subtitle']['subtitle_body'] raises KeyError or TypeError
SubtitleRaises(e) ==
    \/ "subtitle" \notin DOMAIN e
    \/ e.subtitle.t # "obj"
    \/ "subtitle_body" \notin DOMAIN e.subtitle.o

\* lines 230-233
SubtitlesTry(sd) ==
    IF sd.t # "obj" THEN <<>>
    ELSE IF "subtitle_list" \notin DOMAIN sd.o THEN <<>>
    ELSE LET l == sd.o.subtitle_list
         IN IF \E i \in 1..Len(l) : SubtitleRaises(l[i]) THEN <<>>
            ELSE [i \in 1..Len(l) |-> l[i].subtitle.o.subtitle_body]

\* the exception lines 188-233 raise, "" when they raise none
ProjectRaises(body) ==
    IF body.matcher.t # "obj" THEN "TypeError"
    ELSE IF Covers(body.matcher.o.track) = <<>> THEN "IndexError"
    ELSE IF body.lyrics.t # "obj" THEN "TypeError"
    ELSE ""

\* lines 188-233: the locals of get_mm_lyrics after the projection
Project(body) ==
    LET track == body.matcher.o.track
        ly == LyricsTry(body.lyrics.o)
    IN [track_id |-> track.track_id,
        spotify_id |-> track.track_spotify_id,
        name |-> track.track_name,
        length |-> track.track_length,
        artist |-> track.artist_name,
        album |-> track.album_name,
        cover |-> Covers(track)[Len(Covers(track))].v,
        first_release |-> Prefix(track.first_release_date, 10),
        status |-> [lyrics |-> track.has_lyrics # 0,
                    crowd_lyrics |-> track.has_lyrics_crowd # 0,
                    richsync |-> track.has_richsync # 0,
                    subtitles |-> track.has_subtitles # 0,
                    instrumental |-> track.instrumental # 0],
        lyrics |-> ly["lyrics"],
        language |-> ly["language"],
        copyright |-> ly["copyright"],
        crowd_lyrics |-> CrowdTry(body.lyrics.o),
        subtitles |-> SubtitlesTry(body.subtitles),
        richsync |-> <<>>]

(***************************************************************************)
(* get_mm_richsync: the query and the simplification (lines 261-313)       *)
(***************************************************************************)
\* lines 261-270
RichsyncQuery(creds, track_id) ==
    << [k |-> "track_id", v |-> PyInt(track_id)],
       [k |-> "tags", v |-> PyStr(<<110, 111, 119, 112, 108, 97, 121, 105, 110, 103>>)],
       [k |-> "userblob_id", v |-> PyStr(creds[1])],
       [k |-> "user_language", v |-> PyStr(creds[2])],
       [k |-> "app_id", v |-> PyStr(creds[3])],
       [k |-> "usertoken", v |-> PyStr(creds[4])],
       [k |-> "guid", v |-> PyStr(creds[5])],
       [k |-> "signature", v |-> PyStr(creds[6])],
       [k |-> "signature_protocol", v |-> PyStr(<<115, 104, 97, 49>>)] >>

\* A dict that kept the first value given for a key.
DictKeepFirst(d, k, v) ==
    [x \in DOMAIN d \cup {k} |-> IF x \in DOMAIN d THEN d[x] ELSE v]

\* d[k] = v on a mapping from offsets to fragments
DictPut(d, k, v) == [x \in DOMAIN d \cup {k} |-> IF x = k THEN v ELSE d[x]]

\* line 311: {part['o']: part['c'] for part in value['l']}
RECURSIVE PartsToDict(_, _)
PartsToDict(parts, d) ==
    IF parts = <<>> THEN d
    ELSE PartsToDict(Tail(parts), DictPut(d, Head(parts).o, Head(parts).c))

\* lines 310-311: every line keeps its other fields, its 'l' becomes the dict
Simplify(lines) ==
    [i \in 1..Len(lines) |-> [lines[i] EXCEPT !.l = PartsToDict(@, <<>>)]]

(***************************************************************************)
(* The arguments of a call and the answers of the remote API               *)
(***************************************************************************)
\* ['b 1', 'en', 'web-desktop-app-v1.0', 'to:ken', 'g-1', 's/+=']
SomeCreds ==
    << <<98, 32, 49>>, <<101, 110>>,
       <<119, 101, 98, 45, 100, 101, 115, 107, 116, 111, 112, 45, 97, 112, 112, 45, 118, 49, 46, 48>>,
       <<116, 111, 58, 107, 101, 110>>, <<103, 45, 49>>, <<115, 47, 43, 61>> >>

\* an optional text argument: left at its default False, '' or a text;
\* 'A b&c', 'Nemo', 'spotify:track:4d'
TitleArgs == {PyFalse, PyStr(<<>>), PyStr(<<65, 32, 98, 38, 99>>)}
ArtistArgs == {PyFalse, PyStr(<<>>), PyStr(<<78, 101, 109, 111>>)}
AlbumArgs == {PyFalse, PyStr(<<65, 32, 98, 38, 99>>)}
SpotifyArgs ==
    {PyFalse,
     PyStr(<<115, 112, 111, 116, 105, 102, 121, 58, 116, 114, 97, 99, 107, 58, 52, 100>>)}
\* length: (169.8, 2)
LengthArgs == {PyFalse, Tuple2(PyFloat(1698), PyInt(2))}

AllArgs ==
    [creds : {SomeCreds}, title : TitleArgs, artist : ArtistArgs, album : AlbumArgs,
     spotify_id : SpotifyArgs, length : LengthArgs, get_richsync : BOOLEAN]

FewArgs ==
    [creds : {SomeCreds}, title : {PyStr(<<65, 32, 98, 38, 99>>)},
     artist : {PyStr(<<78, 101, 109, 111>>)}, album : {PyFalse},
     spotify_id : {PyFalse}, length : {PyFalse}, get_richsync : BOOLEAN]

\* a track of matcher.track.get; coverart holds its album_coverart_* items
Track(has_richsync, coverart) ==
    [track_id |-> 40720152,
     track_spotify_id |-> "4dfKz7RAHpo6ZCoCL8Rlrb",
     track_name |-> "Nemo",
     track_length |-> 276,
     artist_name |-> "Nightwish",
     album_name |-> "Once",
     coverart |-> coverart,
     \* '2004-04-19T00:00:00Z'
     first_release_date |-> <<50, 48, 48, 52, 45, 48, 52, 45, 49, 57, 84, 48, 48, 58, 48, 48, 58, 48, 48, 90>>,
     has_lyrics |-> 1,
     has_lyrics_crowd |-> 0,
     has_richsync |-> has_richsync,
     has_subtitles |-> 1,
     instrumental |-> 0]

CoverSome ==
    << [k |-> "album_coverart_100x100", v |-> "http://s.mxmcdn.net/100.jpg"],
       [k |-> "album_coverart_350x350", v |-> "http://s.mxmcdn.net/350.jpg"],
       [k |-> "album_coverart_500x500", v |-> ""] >>
CoverNone == << [k |-> "album_coverart_100x100", v |-> ""] >>

\* the lyrics object with all three keys; the copyright is ' \n(c) Writer \n'
LyricsFull ==
    [lyrics_body |-> "la la la",
     lyrics_language |-> "en",
     lyrics_copyright |-> <<32, 10, 40, 99, 41, 32, 87, 114, 105, 116, 101, 114, 32, 10>>]

\* a lyrics object holds any of the three keys
LyricsObjects == {Restrict(LyricsFull, S) : S \in SUBSET DOMAIN LyricsFull}

CrowdList ==
    << [lyrics |-> [lyrics_body |-> "crowd la la"]],
       [lyrics |-> [lyrics_body |-> "crowd la la la"]] >>

\* the body of track.lyrics.get: an object with or without 'lyrics' and
\* 'crowd_lyrics_list', or a string where an object is expected
LyricsBodies ==
    {JObj(Restrict([lyrics |-> lo, crowd_lyrics_list |-> CrowdList], S)) :
        lo \in LyricsObjects, S \in SUBSET {"lyrics", "crowd_lyrics_list"}}
    \cup {JStr("")}

GoodSubtitle == [subtitle |-> JObj([subtitle_body |-> "[00:01.00] la la la"])]

\* the body of track.subtitles.get: a list of subtitles, no list, a string
\* where an object is expected, a list with a null or a missing subtitle
SubtitleBodies ==
    { JObj([subtitle_list |-> <<GoodSubtitle>>]),
      JObj(<<>>),
      JStr(""),
      JObj([subtitle_list |-> <<GoodSubtitle, [subtitle |-> JNull]>>]),
      JObj([subtitle_list |-> <<[other |-> JNull], GoodSubtitle>>]) }

\* the header of an envelope: its status code, with or without a hint
Headers ==
    { [status_code |-> 401, hint |-> "captcha"],
      [status_code |-> 401, hint |-> "renew"],
      [status_code |-> 404] }

MacroBody(matcher, ld, sd) == [matcher |-> matcher, lyrics |-> ld, subtitles |-> sd]
NotFoundBody(text) == MacroBody(JStr(text), JStr(""), JStr(""))

MacroResponse(http, header, body) ==
    [status_code |-> http, json |-> [header |-> header, body |-> body]]

\* richsync_body once decoded: lines of (offset, fragment) parts; offsets
\* are written in milliseconds (0.05 s is 50)
Parts == {[o |-> 0, c |-> "Hello"], [o |-> 0, c |-> " "], [o |-> 50, c |-> " "]}
Lines == {[x |-> "Hello ", l |-> ps] : ps \in SeqsUpTo(Parts, MaxParts)}

RichsyncResponse(http, code, lines) ==
    [status_code |-> http, json |-> [header |-> [status_code |-> code], body |-> lines]]

HelloLine == [x |-> "Hello ", l |-> <<[o |-> 0, c |-> "Hello"], [o |-> 50, c |-> " "]>>]

FewRichsyncResponses ==
    { RichsyncResponse(500, 200, <<>>),
      RichsyncResponse(200, 404, <<>>),
      RichsyncResponse(200, 200, <<HelloLine>>) }

AllRichsyncResponses ==
    { RichsyncResponse(500, 200, <<>>), RichsyncResponse(200, 404, <<>>) }
    \cup {RichsyncResponse(200, 200, ls) : ls \in SeqsUpTo(Lines, MaxLines)}

\* failures: HTTP 500 (whatever the body says), an envelope that is not 200
\* (whatever the matcher body is), a string as matcher body
FailingMacroResponses ==
    {MacroResponse(500, h, NotFoundBody("")) :
        h \in {[status_code |-> 401, hint |-> "captcha"], [status_code |-> 200]}}
    \cup {MacroResponse(200, h, NotFoundBody("")) : h \in Headers}
    \cup {MacroResponse(200, [status_code |-> 200], NotFoundBody(t)) :
            t \in {"", "No results"}}

AllMacroResponses ==
    FailingMacroResponses
    \cup {MacroResponse(200, [status_code |-> 200],
                        MacroBody(JObj([track |-> Track(hr, cv)]), ld, sd)) :
            hr \in {0, 1}, cv \in {CoverSome, CoverNone},
            ld \in LyricsBodies, sd \in SubtitleBodies}

FewMacroResponses ==
    FailingMacroResponses
    \cup {MacroResponse(200, [status_code |-> 200],
                        MacroBody(JObj([track |-> Track(hr, CoverSome)]),
                                  JObj([lyrics |-> LyricsFull]),
                                  JObj([subtitle_list |-> <<GoodSubtitle>>]))) :
            hr \in {0, 1}}
    \cup {MacroResponse(200, [status_code |-> 200],
                        MacroBody(JObj([track |-> Track(1, CoverNone)]),
                                  JStr(""), JStr("")))}

AllBackends == [macro : AllMacroResponses, richsync : FewRichsyncResponses]
FewBackends == [macro : FewMacroResponses, richsync : FewRichsyncResponses]

(***************************************************************************)
(* get_mm_lyrics and get_mm_richsync                                       *)
(***************************************************************************)
otherVars == <<credVars, searchVars>>

NoRichsyncCall == [track_id |-> 0, url |-> <<>>, r |-> <<>>, full |-> <<>>]

StartOfCall ==
    /\ q = <<>>
    /\ url = <<>>
    /\ sent = <<>>
    /\ r = <<>>
    /\ full = <<>>
    /\ locals = <<>>
    /\ outcome = Nothing

IdleOthers ==
    /\ fs = <<>>
    /\ cachefiles = <<>>
    /\ fidx = 0
    /\ credentials = Unbound
    /\ c = <<>>
    /\ m = NoMatch

\* a call of get_mm_lyrics
InitLyricsWith(Args, Backends) ==
    /\ pc = "lyr_start"
    /\ args \in Args
    /\ backend \in Backends
    /\ caller = ""
    /\ rs = NoRichsyncCall
    /\ seen = {}
    /\ StartOfCall
    /\ IdleOthers

\* the exception propagates to the caller, who notes what failed and how
Fail(cause, exc) ==
    /\ outcome' = exc
    /\ seen' = seen \cup {[cause |-> cause, type |-> exc.exc.type,
                           code |-> exc.exc.code # <<>>, url |-> exc.exc.url # <<>>]}
    /\ pc' = "done"

\* lines 102-148
LyrBuild ==
    /\ pc = "lyr_start"
    /\ q' = BuildQuery(args)
    /\ url' = BuildUrl(MacroBase, BuildQuery(args))
    /\ pc' = "lyr_get"
    /\ UNCHANGED <<args, backend, sent, r, full, locals, rs, caller, seen, outcome, otherVars>>

\* line 159: r = get(url, headers=headers)
LyrHttpGet ==
    /\ pc = "lyr_get"
    /\ sent' = Append(sent, "macro")
    /\ r' = [status_code |-> backend.macro.status_code, content |-> backend.macro.json]
    /\ pc' = "lyr_status"
    /\ UNCHANGED <<args, backend, q, url, full, locals, rs, caller, seen, outcome, otherVars>>

\* lines 161-163
LyrHttpError ==
    /\ pc = "lyr_status"
    /\ r.status_code # 200
    /\ Fail("http", Raised("RuntimeError", "HTTP GET returned with status",
                           <<r.status_code>>, <<url>>))
    /\ UNCHANGED <<args, backend, q, url, sent, r, full, locals, rs, caller, otherVars>>

\* line 167: full = loads(r.content.decode())
LyrParse ==
    /\ pc = "lyr_status"
    /\ r.status_code = 200
    /\ full' = r.content
    /\ pc' = "lyr_envelope"
    /\ UNCHANGED <<args, backend, q, url, sent, r, locals, rs, caller, seen, outcome, otherVars>>

\* line 170: full['message']['header']['hint'] on a header without a hint
LyrHintKeyError ==
    /\ pc = "lyr_envelope"
    /\ full.header.status_code # 200
    /\ "hint" \notin DOMAIN full.header
    /\ Fail("envelope", Raised("KeyError", "hint", <<>>, <<>>))
    /\ UNCHANGED <<args, backend, q, url, sent, r, full, locals, rs, caller, otherVars>>

\* lines 169-171
LyrCaptcha ==
    /\ pc = "lyr_envelope"
    /\ full.header.status_code # 200
    /\ "hint" \in DOMAIN full.header
    /\ full.header.hint = "captcha"
    /\ Fail("captcha", Raised("RuntimeError", "Complete the captcha", <<>>, <<>>))
    /\ UNCHANGED <<args, backend, q, url, sent, r, full, locals, rs, caller, otherVars>>

\* lines 172-174
LyrJsonError ==
    /\ pc = "lyr_envelope"
    /\ full.header.status_code # 200
    /\ "hint" \in DOMAIN full.header
    /\ full.header.hint # "captcha"
    /\ Fail("envelope", Raised("RuntimeError", "JSON returned with status",
                               <<full.header.status_code>>, <<url>>))
    /\ UNCHANGED <<args, backend, q, url, sent, r, full, locals, rs, caller, otherVars>>

\* line 169: the envelope status is 200
LyrEnvelopeOk ==
    /\ pc = "lyr_envelope"
    /\ full.header.status_code = 200
    /\ pc' = "lyr_results"
    /\ UNCHANGED <<args, backend, q, url, sent, r, full, locals, rs, caller, seen, outcome, otherVars>>

\* Telling "no results" by the text of the body.
IsNoResultsText(v) == v = JStr("No results")

\* line 183: type(...) is str
IsStr(v) == v.t = "str"

\* lines 183-184: the matcher.track.get body is a str
LyrNoResults ==
    /\ pc = "lyr_results"
    /\ IsStr(full.body.matcher)
    /\ Fail("noresults", Raised("ValueError", "No results", <<>>, <<>>))
    /\ UNCHANGED <<args, backend, q, url, sent, r, full, locals, rs, caller, otherVars>>

\* lines 188-233, when one of them raises
LyrProjectError ==
    /\ pc = "lyr_results"
    /\ ~IsStr(full.body.matcher)
    /\ ProjectRaises(full.body) # ""
    /\ Fail("projection", Raised(ProjectRaises(full.body), "", <<>>, <<>>))
    /\ UNCHANGED <<args, backend, q, url, sent, r, full, locals, rs, caller, otherVars>>

\* lines 188-233
LyrProject ==
    /\ pc = "lyr_results"
    /\ ~IsStr(full.body.matcher)
    /\ ProjectRaises(full.body) = ""
    /\ locals' = Project(full.body)
    /\ pc' = "lyr_richsync"
    /\ UNCHANGED <<args, backend, q, url, sent, r, full, rs, caller, seen, outcome, otherVars>>

\* Asking for richsync whatever the track's flag says.
RichsyncWhenAsked == args.get_richsync

\* line 237: get_richsync and status['richsync']
RichsyncWanted == args.get_richsync /\ locals.status.richsync

\* lines 237-238: richsync = get_mm_richsync(creds, track_id, verbose)
LyrCallRichsync ==
    /\ pc = "lyr_richsync"
    /\ RichsyncWanted
    /\ caller' = "get_mm_lyrics"
    /\ rs' = [NoRichsyncCall EXCEPT !.track_id = locals.track_id]
    /\ pc' = "rs_start"
    /\ UNCHANGED <<args, backend, q, url, sent, r, full, locals, seen, outcome, otherVars>>

\* lines 239-240: richsync = []
LyrNoRichsync ==
    /\ pc = "lyr_richsync"
    /\ ~RichsyncWanted
    /\ locals' = [locals EXCEPT !.richsync = <<>>]
    /\ pc' = "lyr_pack"
    /\ UNCHANGED <<args, backend, q, url, sent, r, full, rs, caller, seen, outcome, otherVars>>

\* lines 244-254: return (short, full)
LyrReturn ==
    /\ pc = "lyr_pack"
    /\ outcome' = Returned([short |-> locals, full |-> full])
    /\ pc' = "done"
    /\ UNCHANGED <<args, backend, q, url, sent, r, full, locals, rs, caller, seen, otherVars>>

\* lines 261-276
RsBuild ==
    /\ pc = "rs_start"
    /\ rs' = [rs EXCEPT !.url = BuildUrl(RichsyncBase,
                                         RichsyncQuery(args.creds, rs.track_id))]
    /\ pc' = "rs_get"
    /\ UNCHANGED <<args, backend, q, url, sent, r, full, locals, caller, seen, outcome, otherVars>>

\* line 285
RsHttpGet ==
    /\ pc = "rs_get"
    /\ sent' = Append(sent, "richsync")
    /\ rs' = [rs EXCEPT !.r = [status_code |-> backend.richsync.status_code,
                               content |-> backend.richsync.json]]
    /\ pc' = "rs_status"
    /\ UNCHANGED <<args, backend, q, url, r, full, locals, caller, seen, outcome, otherVars>>

\* lines 287-289
RsHttpError ==
    /\ pc = "rs_status"
    /\ rs.r.status_code # 200
    /\ Fail("http", Raised("RuntimeError", "HTTP GET returned with status",
                           <<rs.r.status_code>>, <<rs.url>>))
    /\ UNCHANGED <<args, backend, q, url, sent, r, full, locals, rs, caller, otherVars>>

\* line 292
RsParse ==
    /\ pc = "rs_status"
    /\ rs.r.status_code = 200
    /\ rs' = [rs EXCEPT !.full = rs.r.content]
    /\ pc' = "rs_envelope"
    /\ UNCHANGED <<args, backend, q, url, sent, r, full, locals, caller, seen, outcome, otherVars>>

\* lines 294-296
RsJsonError ==
    /\ pc = "rs_envelope"
    /\ rs.full.header.status_code # 200
    /\ Fail("envelope", Raised("RuntimeError", "richsync JSON returned with status",
                               <<rs.full.header.status_code>>, <<rs.url>>))
    /\ UNCHANGED <<args, backend, q, url, sent, r, full, locals, rs, caller, otherVars>>

\* lines 304-313, returning into line 238 of get_mm_lyrics
RsReturnToLyrics ==
    /\ pc = "rs_envelope"
    /\ rs.full.header.status_code = 200
    /\ caller = "get_mm_lyrics"
    /\ locals' = [locals EXCEPT !.richsync = Simplify(rs.full.body)]
    /\ pc' = "lyr_pack"
    /\ UNCHANGED <<args, backend, q, url, sent, r, full, rs, caller, seen, outcome, otherVars>>

\* lines 304-313, returning to a caller of get_mm_richsync itself
RsReturn ==
    /\ pc = "rs_envelope"
    /\ rs.full.header.status_code = 200
    /\ caller # "get_mm_lyrics"
    /\ outcome' = Returned(Simplify(rs.full.body))
    /\ pc' = "done"
    /\ UNCHANGED <<args, backend, q, url, sent, r, full, locals, rs, caller, seen, otherVars>>

NextRichsyncCalled ==
    \/ RsBuild
    \/ RsHttpGet
    \/ RsHttpError
    \/ RsParse
    \/ RsJsonError
    \/ RsReturnToLyrics

NextLyrics ==
    \/ LyrBuild
    \/ LyrHttpGet
    \/ LyrHttpError
    \/ LyrParse
    \/ LyrHintKeyError
    \/ LyrCaptcha
    \/ LyrJsonError
    \/ LyrEnvelopeOk
    \/ LyrNoResults
    \/ LyrProjectError
    \/ LyrProject
    \/ LyrCallRichsync
    \/ LyrNoRichsync
    \/ LyrReturn
    \/ NextRichsyncCalled

\* one call of get_mm_lyrics, over the answers the API may give
InitLyrics == InitLyricsWith(FewArgs, AllBackends)
SpecLyrics == InitLyrics /\ [][NextLyrics]_vars

\* one call of get_mm_lyrics, over the arguments it may be given
InitQuery == InitLyricsWith(AllArgs, FewBackends)
SpecQuery == InitQuery /\ [][NextLyrics]_vars

\* the caller calls get_mm_lyrics again, and the API answers as it likes
CallAgain ==
    /\ pc = "done"
    /\ pc' = "lyr_start"
    /\ backend' \in FewBackends
    /\ q' = <<>>
    /\ url' = <<>>
    /\ sent' = <<>>
    /\ r' = <<>>
    /\ full' = <<>>
    /\ locals' = <<>>
    /\ rs' = NoRichsyncCall
    /\ caller' = ""
    /\ outcome' = Nothing
    /\ UNCHANGED <<args, seen, otherVars>>

NextCalls == NextLyrics \/ CallAgain

InitCalls == InitLyricsWith({a \in FewArgs : a.get_richsync}, FewBackends)
SpecCalls == InitCalls /\ [][NextCalls]_vars

\* a call of get_mm_richsync itself: get_mm_richsync(credentials, 40720152)
InitRichsync ==
    /\ pc = "rs_start"
    /\ args = [creds |-> SomeCreds]
    /\ backend \in [macro : {<<>>}, richsync : AllRichsyncResponses]
    /\ caller = "direct"
    /\ rs = [NoRichsyncCall EXCEPT !.track_id = 40720152]
    /\ seen = {}
    /\ StartOfCall
    /\ IdleOthers

NextRichsync ==
    \/ RsBuild
    \/ RsHttpGet
    \/ RsHttpError
    \/ RsParse
    \/ RsJsonError
    \/ RsReturn

SpecRichsync == InitRichsync /\ [][NextRichsync]_vars

(***************************************************************************)
(* Claims about get_mm_credentials                                         *)
(***************************************************************************)
\* a file the scan can take credentials from: readable, the pattern matches,
\* and all six parameters are in the query of the matched URL
Complete(e) ==
    /\ e.kind = "file"
    /\ search(e.content).found
    /\ ~ReadCredentials(search(e.content).url).raised

CredentialsOf(e) == ReadCredentials(search(e.content).url).list

CompleteFiles == {i \in 1..NumFiles : Complete(fs[i])}

\* C1: when a complete file exists, get_mm_credentials returns the
\* credentials of a complete file that no complete file is newer than;
\* newer files that are unreadable, do not match or lack a parameter do not
\* stop the scan.
C1_NewestCompleteFile ==
    (pc = "cred_done" /\ CompleteFiles # {}) =>
        /\ outcome.kind = "returned"
        /\ \E i \in CompleteFiles :
              /\ outcome.value = CredentialsOf(fs[i])
              /\ \A j \in CompleteFiles : fs[j].mtime <= fs[i].mtime

\* C1 witness: the newest file lacks a parameter, an older one is complete
\* and its credentials were returned
C1_Witness ==
    /\ pc = "cred_done"
    /\ outcome.kind = "returned"
    /\ Len(outcome.value) = 6
    /\ \E i, j \in 1..NumFiles :
          /\ fs[i].mtime > fs[j].mtime
          /\ fs[i].kind = "file" /\ search(fs[i].content).found /\ ~Complete(fs[i])
          /\ Complete(fs[j])
          /\ outcome.value = CredentialsOf(fs[j])

\* C2: get_mm_credentials ends in one of two ways: it returns six fields, or
\* it raises the not-found error; it raises whenever no file yields all six.
C2_SixFieldsOrNotFound ==
    pc = "cred_done" =>
        /\ \/ outcome.kind = "returned" /\ Len(outcome.value) = 6
           \/ outcome.kind = "raised" /\ outcome.exc.type = "AttributeError"
        /\ CompleteFiles = {} => outcome.kind = "raised"

(***************************************************************************)
(* Claims about the extracted URL                                          *)
(***************************************************************************)
ContainsLiteral(buf) == \E i \in 1..Len(buf) : LiteralAt(buf, i)

FirstLiteral(buf) ==
    CHOOSE i \in 1..Len(buf) :
        LiteralAt(buf, i) /\ \A k \in 1..(i - 1) : ~LiteralAt(buf, k)

\* letters, digits and / # ? _ = & % . - ~
UrlAlphabet(b) ==
    \/ b >= 48 /\ b <= 57
    \/ b >= 65 /\ b <= 90
    \/ b >= 97 /\ b <= 122
    \/ b \in {47, 35, 63, 95, 61, 38, 37, 46, 45, 126}

\* the end of the run of bytes satisfying Allowed that starts at position j
RunEnd(buf, j, Allowed(_)) ==
    IF \E k \in j..Len(buf) : ~Allowed(buf[k])
    THEN (CHOOSE k \in j..Len(buf) :
            ~Allowed(buf[k]) /\ \A l \in j..(k - 1) : Allowed(buf[l])) - 1
    ELSE Len(buf)

Printable(b) == b >= 32 /\ b <= 126

\* C9 as stated: whenever the file holds the literal, the extracted URL runs
\* from its first occurrence over the longest run of URL-alphabet bytes, to
\* the first byte outside the alphabet or to the end of the buffer.
C9_UrlAlphabetRun ==
    (pc = "search_done" /\ ContainsLiteral(c)) =>
        /\ m.found
        /\ m.url = SubSeq(c, FirstLiteral(c),
                          RunEnd(c, FirstLiteral(c) + Len(PREFIX), UrlAlphabet))

\* C9 amended: the run is over the bytes 32..126 and must be ended by a byte
\* outside 32..126; a run that reaches the end of the buffer is no match.
C9_PrintableRunTerminated ==
    pc = "search_done" =>
        IF /\ ContainsLiteral(c)
           /\ RunEnd(c, FirstLiteral(c) + Len(PREFIX), Printable) < Len(c)
        THEN /\ m.found
             /\ m.url = SubSeq(c, FirstLiteral(c),
                               RunEnd(c, FirstLiteral(c) + Len(PREFIX), Printable))
        ELSE ~m.found

\* C9 witness: a URL between noise and a terminator was extracted, without
\* the noise, and it holds a byte outside the URL alphabet
C9_Witness ==
    /\ pc = "search_done"
    /\ m.found
    /\ FirstLiteral(c) > 1
    /\ \E k \in 1..Len(m.url) : ~UrlAlphabet(m.url[k])
    /\ Len(m.url) < Len(c) - FirstLiteral(c)

(***************************************************************************)
(* Claims about the request of get_mm_lyrics                               *)
(***************************************************************************)
Documented ==
    <<"f_subtitle_length", "namespace", "part", "q_album", "q_artist", "q_artists",
      "q_duration", "q_track", "tags", "userblob_id", "user_language",
      "track_spotify_id", "f_subtitle_length_max_deviation", "subtitle_format",
      "app_id", "usertoken", "guid", "signature", "signature_protocol">>

\* the argument an optional parameter comes from
InputOf(k) ==
    CASE k \in {"f_subtitle_length", "q_duration", "f_subtitle_length_max_deviation"}
            -> args.length
      [] k = "q_album" -> args.album
      [] k \in {"q_artist", "q_artists"} -> args.artist
      [] k = "q_track" -> args.title
      [] k = "track_spotify_id" -> args.spotify_id

OptionalParams ==
    {"f_subtitle_length", "q_duration", "f_subtitle_length_max_deviation", "q_album",
     "q_artist", "q_artists", "q_track", "track_spotify_id"}

\* an input is supplied when it is given a value: not left at its default
\* False, and not the empty text
Supplied(v) == v # PyFalse /\ v # PyStr(<<>>)

ExpectedParam(k) == k \notin OptionalParams \/ Supplied(InputOf(k))

\* the text an optional parameter carries
ExpectedText(k) ==
    CASE k = "f_subtitle_length" -> <<49, 54, 57>>
      [] k = "q_duration" -> <<49, 54, 57, 46, 56>>
      [] k = "f_subtitle_length_max_deviation" -> <<50>>
      [] OTHER -> InputOf(k).s

\* a character that may stand in a percent-encoded value
EncodedChar(ch) ==
    \/ ch >= 48 /\ ch <= 57
    \/ ch >= 65 /\ ch <= 90
    \/ ch >= 97 /\ ch <= 122
    \/ ch \in {37, 45, 46, 47, 95, 126}

\* C3: the parameters appended to the URL are the documented sequence
\* restricted to the parameters whose input was supplied, in that order; the
\* signature is inserted verbatim, every other value is percent-encoded (it
\* holds only unreserved characters and escapes, and decodes to the value).
C3_DocumentedOrder ==
    url # <<>> =>
        /\ [i \in 1..Len(url.params) |-> url.params[i].k]
              = SelectSeq(Documented, ExpectedParam)
        /\ \A i \in 1..Len(url.params) :
              LET k == url.params[i].k
                  v == url.params[i].v
              IN IF k = "signature" THEN v = args.creds[6]
                 ELSE /\ \A j \in 1..Len(v) : EncodedChar(v[j])
                      /\ unquote(v) = str(q[i].v)
                      /\ k \in OptionalParams => unquote(v) = ExpectedText(k)

\* C3 witness: only title 'A b&c' and artist are supplied; the fifth
\* parameter is q_track=A%20b%26c and the signature 's/+=' is not encoded
C3_Witness ==
    /\ pc = "lyr_get"
    /\ args.title = PyStr(<<65, 32, 98, 38, 99>>)
    /\ args.artist = PyStr(<<78, 101, 109, 111>>)
    /\ args.album = PyFalse /\ args.spotify_id = PyFalse /\ args.length = PyFalse
    /\ Len(url.params) = 14
    /\ url.params[5] = [k |-> "q_track", v |-> <<65, 37, 50, 48, 98, 37, 50, 54, 99>>]
    /\ url.params[13] = [k |-> "signature", v |-> <<115, 47, 43, 61>>]

(***************************************************************************)
(* Claims about the failures of get_mm_lyrics                              *)
(***************************************************************************)
Finished == pc = "done"
Failed == pc = "done" /\ outcome.kind = "raised"
Succeeded == pc = "done" /\ outcome.kind = "returned"

HttpOk == r.status_code = 200
EnvelopeOk == r.content.header.status_code = 200
MatcherIsString == r.content.body.matcher.t = "str"

\* the kinds of failure as the code raises them
IsCaptchaRequired(e) == e.type = "RuntimeError" /\ e.msg = "Complete the captcha"
IsApiError(e) == e.type = "RuntimeError" /\ e.msg = "JSON returned with status"
IsNoResults(e) == e.type = "ValueError" /\ e.msg = "No results"

\* C4: with HTTP 200 and an envelope status other than 200, the call fails
\* with CaptchaRequired when the hint is "captcha", and with ApiError for
\* any other hint and when the header has no hint.
C4_CaptchaOrApiError ==
    (Finished /\ HttpOk /\ ~EnvelopeOk) =>
        /\ outcome.kind = "raised"
        /\ IF "hint" \in DOMAIN r.content.header /\ r.content.header.hint = "captcha"
           THEN IsCaptchaRequired(outcome.exc)
           ELSE IsApiError(outcome.exc)

\* C5: with HTTP 200 and envelope 200, a matcher body that is a string makes
\* the call fail with NoResults, with nothing projected and no richsync
\* request; and NoResults is reported only after the two earlier checks
\* have passed.
C5_StringBodyIsNoResults ==
    Finished =>
        /\ (HttpOk /\ EnvelopeOk /\ MatcherIsString) =>
              /\ outcome.kind = "raised"
              /\ IsNoResults(outcome.exc)
              /\ locals = <<>>
              /\ sent = <<"macro">>
        /\ (outcome.kind = "raised" /\ IsNoResults(outcome.exc)) =>
              HttpOk /\ EnvelopeOk /\ MatcherIsString

\* C5 witness: the matcher body was the empty string, and the call failed
\* with NoResults
C5_Witness ==
    /\ Failed
    /\ IsNoResults(outcome.exc)
    /\ r.content.body.matcher = JStr("")

\* the documented kind of a failure the caller has seen
KindOf(f) ==
    CASE f.cause = "http" -> "TransportError"
      [] f.cause = "captcha" -> "CaptchaRequired"
      [] f.cause = "envelope" -> "ApiError"
      [] f.cause = "noresults" -> "NoResults"
      [] OTHER -> "other"

DocumentedFailures == {f \in seen : KindOf(f) # "other"}

\* C6: failures of different kinds differ in the class of the error, and
\* each failure carries the status code and the attempted URL.
C6_DistinguishableKinds ==
    /\ \A f, g \in DocumentedFailures : KindOf(f) # KindOf(g) => f.type # g.type
    /\ \A f \in DocumentedFailures : f.code /\ f.url

(***************************************************************************)
(* Claims about the requests and the result of get_mm_lyrics               *)
(***************************************************************************)
\* C7: the macro endpoint is requested exactly once; the richsync endpoint
\* at most once, only after the three checks have passed, and only when
\* richsync was asked for and the track has it; otherwise a successful call
\* returns richsync = []; a failure, of the richsync request too, ends the
\* call with no result.
C7_RequestsAndRichsync ==
    /\ sent \in {<<>>, <<"macro">>, <<"macro", "richsync">>}
    /\ Finished => sent # <<>>
    /\ sent = <<"macro", "richsync">> =>
          /\ HttpOk /\ EnvelopeOk /\ ~MatcherIsString
          /\ args.get_richsync
          /\ r.content.body.matcher.o.track.has_richsync # 0
    /\ Succeeded =>
          IF args.get_richsync /\ r.content.body.matcher.o.track.has_richsync # 0
          THEN /\ sent = <<"macro", "richsync">>
               /\ outcome.value.short.richsync = Simplify(backend.richsync.json.body)
          ELSE /\ sent = <<"macro">>
               /\ outcome.value.short.richsync = <<>>
    /\ Failed => outcome.value = <<>>
    /\ (Finished /\ sent = <<"macro", "richsync">>
          /\ (backend.richsync.status_code # 200
              \/ backend.richsync.json.header.status_code # 200)) => Failed

\* C7 witness: richsync was asked for, the track has none, and the call
\* returned richsync = [] after the one macro request
C7_Witness ==
    /\ Succeeded
    /\ args.get_richsync
    /\ r.content.body.matcher.o.track.has_richsync = 0
    /\ sent = <<"macro">>
    /\ outcome.value.short.richsync = <<>>

\* ' \n(c) Writer \n' without its surrounding whitespace: '(c) Writer'
TrimmedCopyright == <<40, 99, 41, 32, 87, 114, 105, 116, 101, 114>>

SubtitlesUsable(sd) ==
    /\ sd.t = "obj"
    /\ "subtitle_list" \in DOMAIN sd.o
    /\ \A i \in 1..Len(sd.o.subtitle_list) :
          /\ "subtitle" \in DOMAIN sd.o.subtitle_list[i]
          /\ sd.o.subtitle_list[i].subtitle.t = "obj"

\* C10: lyrics, language and copyright are the backend's three values (the
\* copyright trimmed) when the lyrics object holds all three keys, and all
\* three empty when the object or one key is absent, without an error;
\* crowd_lyrics is [] when crowd_lyrics_list is absent; subtitles is []
\* when subtitle_list is absent or malformed.
C10_AllOrNothing ==
    /\ Succeeded =>
          LET ld == full.body.lyrics.o
              short == outcome.value.short
          IN /\ IF /\ "lyrics" \in DOMAIN ld
                   /\ {"lyrics_body", "lyrics_language", "lyrics_copyright"}
                         \subseteq DOMAIN ld.lyrics
                THEN /\ short.lyrics = "la la la"
                     /\ short.language = "en"
                     /\ short.copyright = TrimmedCopyright
                ELSE /\ short.lyrics = ""
                     /\ short.language = ""
                     /\ short.copyright = <<>>
             /\ "crowd_lyrics_list" \notin DOMAIN ld => short.crowd_lyrics = <<>>
             /\ "crowd_lyrics_list" \in DOMAIN ld => Len(short.crowd_lyrics) = 2
             /\ ~SubtitlesUsable(full.body.subtitles) => short.subtitles = <<>>
             /\ SubtitlesUsable(full.body.subtitles) => Len(short.subtitles) = 1
    /\ (Finished /\ HttpOk /\ EnvelopeOk /\ ~MatcherIsString
          /\ r.content.body.lyrics.t = "obj"
          /\ Covers(r.content.body.matcher.o.track) # <<>>
          /\ sent = <<"macro">>) => Succeeded

\* C10 witness: the backend supplied lyrics_body and lyrics_copyright but no
\* lyrics_language, and the call returned all three empty
C10_Witness ==
    /\ Succeeded
    /\ "lyrics" \in DOMAIN full.body.lyrics.o
    /\ DOMAIN full.body.lyrics.o.lyrics = {"lyrics_body", "lyrics_copyright"}
    /\ outcome.value.short.lyrics = ""
    /\ outcome.value.short.copyright = <<>>

(***************************************************************************)
(* Claims about get_mm_richsync                                            *)
(***************************************************************************)
OffsetsOf(parts) == {parts[j].o : j \in 1..Len(parts)}

\* the fragment of the last part of the line that carries offset o
LastFragment(parts, o) ==
    parts[Greatest({j \in 1..Len(parts) : parts[j].o = o})].c

\* C8: get_mm_richsync returns one entry per line, in line order; the keys
\* of a line's mapping are the offsets of its parts, and each offset maps to
\* the fragment of the last part carrying it.
C8_OffsetMapping ==
    (Succeeded /\ caller = "direct") =>
        LET lines == backend.richsync.json.body
            res == outcome.value
        IN /\ Len(res) = Len(lines)
           /\ \A i \in 1..Len(lines) :
                 /\ res[i].x = lines[i].x
                 /\ DOMAIN res[i].l = OffsetsOf(lines[i].l)
                 /\ \A o \in OffsetsOf(lines[i].l) :
                       res[i].l[o] = LastFragment(lines[i].l, o)

\* C8 witness: two lines came back; the first had distinct offsets and gives
\* {0: 'Hello', 0.05: ' '}, the second had offset 0 twice and kept ' '
C8_Witness ==
    /\ Succeeded
    /\ caller = "direct"
    /\ Len(outcome.value) = 2
    /\ backend.richsync.json.body[1].l = <<[o |-> 0, c |-> "Hello"], [o |-> 50, c |-> " "]>>
    /\ outcome.value[1].l = (0 :> "Hello" @@ 50 :> " ")
    /\ backend.richsync.json.body[2].l = <<[o |-> 0, c |-> "Hello"], [o |-> 0, c |-> " "]>>
    /\ outcome.value[2].l = (0 :> " ")

====
